---- MODULE Spec2Model ----
(***************************************************************************)
(* Model of the smart_dashboard backend: the CSV upload handler            *)
(* (app/routers/sales.py), the aggregation queries and the analysis        *)
(* endpoint (app/services/sales_analysis.py), the sales table              *)
(* (app/models/sales.py) and the mail notifier (app/utils/email_sender.py).*)
(*                                                                         *)
(* Representation.  A text is a sequence of one-character strings, so the  *)
(* parsers below inspect characters the way int(), float(), str.strip()    *)
(* and strptime() do.  Python's None is the one-element sequence None.     *)
(* A float is kept as an exact decimal <<m, e>> = m / 10^e with no         *)
(* trailing fractional zero; sums are taken on the grid 10^-FracDigits.    *)
(* A calendar date is <<year, month, day>>; an absent date is <<>>.        *)
(* Texts of the model use the characters of Alphabet and of the sample     *)
(* cells; exponent, underscore, inf and nan literals are not among them.   *)
(***************************************************************************)
EXTENDS Integers, Sequences, FiniteSets, TLC

\* ---------------------------------------------------------------- bounds
MaxLen == 3
MaxRows == 2
MaxRequests == 2
MaxReports == 1
FracDigits == 1

\* ------------------------------------------------------------------ texts
None == <<"None">>
DateNone == <<>>

Digits == {"0", "1", "2", "3", "4", "5", "6", "7", "8", "9"}
Alphabet == {"1", "0", "-", ".", " ", "t"}

DigitVal(c) ==
  CASE c = "0" -> 0 [] c = "1" -> 1 [] c = "2" -> 2 [] c = "3" -> 3
    [] c = "4" -> 4 [] c = "5" -> 5 [] c = "6" -> 6 [] c = "7" -> 7
    [] c = "8" -> 8 [] c = "9" -> 9

BoundedSeq(S, n) == UNION {[1..k -> S] : k \in 0..n}

Pow10(n) == IF n = 0 THEN 1 ELSE IF n = 1 THEN 10 ELSE IF n = 2 THEN 100
            ELSE IF n = 3 THEN 1000 ELSE IF n = 4 THEN 10000 ELSE 100000

AllDigits(s) == \A i \in 1..Len(s) : s[i] \in Digits

RECURSIVE DigitsValue(_)
DigitsValue(s) ==
  IF Len(s) = 0 THEN 0
  ELSE 10 * DigitsValue(SubSeq(s, 1, Len(s) - 1)) + DigitVal(s[Len(s)])

\* str.strip(): drop leading and trailing whitespace
RECURSIVE LStrip(_)
LStrip(s) == IF Len(s) > 0 /\ s[1] = " " THEN LStrip(Tail(s)) ELSE s

RECURSIVE RStrip(_)
RStrip(s) ==
  IF Len(s) > 0 /\ s[Len(s)] = " " THEN RStrip(SubSeq(s, 1, Len(s) - 1)) ELSE s

Strip(s) == LStrip(RStrip(s))

HasSign(s) == Len(s) > 0 /\ s[1] \in {"+", "-"}
Unsigned(s) == IF HasSign(s) THEN Tail(s) ELSE s
SignOf(s) == IF Len(s) > 0 /\ s[1] = "-" THEN -1 ELSE 1

\* ------------------------------------------------------------ normalizers
\* int(text): optional sign and one or more digits, surrounding whitespace
\* ignored; anything else raises ValueError, None raises TypeError
IntLiteral(s) == Len(Unsigned(s)) > 0 /\ AllDigits(Unsigned(s))

to_int(val) ==
  IF val = None THEN 0
  ELSE IF IntLiteral(Strip(val))
       THEN SignOf(Strip(val)) * DigitsValue(Unsigned(Strip(val)))
       ELSE 0

\* float(text): optional sign, digits with at most one point and at least
\* one digit
DotPos(s) == IF \E i \in 1..Len(s) : s[i] = "."
             THEN CHOOSE i \in 1..Len(s) : s[i] = "." /\ \A j \in 1..(i - 1) : s[j] # "."
             ELSE 0

IntPart(s) == IF DotPos(s) = 0 THEN s ELSE SubSeq(s, 1, DotPos(s) - 1)
FracPart(s) == IF DotPos(s) = 0 THEN <<>> ELSE SubSeq(s, DotPos(s) + 1, Len(s))

FloatLiteral(s) ==
  /\ AllDigits(IntPart(Unsigned(s)))
  /\ AllDigits(FracPart(Unsigned(s)))
  /\ Len(IntPart(Unsigned(s))) + Len(FracPart(Unsigned(s))) > 0

RECURSIVE Decimal(_, _)
Decimal(m, e) == IF e > 0 /\ m % 10 = 0 THEN Decimal(m \div 10, e - 1) ELSE <<m, e>>

Zero == <<0, 0>>

FloatValue(s) ==
  LET u == Unsigned(s)
      mag == DigitsValue(IntPart(u) \o FracPart(u))
  IN  Decimal(SignOf(s) * mag, Len(FracPart(u)))

to_float(val) ==
  IF val = None THEN Zero
  ELSE IF FloatLiteral(Strip(val)) THEN FloatValue(Strip(val)) ELSE Zero

\* str(val).strip() if val else ""
to_str(val) == IF val = None \/ val = <<>> THEN <<>> ELSE Strip(val)

\* datetime.strptime(val, "%Y-%m-%d").date()
IsLeap(y) == (y % 4 = 0 /\ y % 100 # 0) \/ y % 400 = 0

DaysInMonth(y, m) ==
  IF m = 2 THEN (IF IsLeap(y) THEN 29 ELSE 28)
  ELSE IF m \in {4, 6, 9, 11} THEN 30 ELSE 31

\* %m matches 1[0-2] | 0[1-9] | [1-9]
MonthToken(t) ==
  \/ Len(t) = 2 /\ t[1] = "1" /\ t[2] \in {"0", "1", "2"}
  \/ Len(t) = 2 /\ t[1] = "0" /\ t[2] \in Digits \ {"0"}
  \/ Len(t) = 1 /\ t[1] \in Digits \ {"0"}

\* %d matches 3[01] | [12]\d | 0[1-9] | [1-9] | " "[1-9]
DayToken(t) ==
  \/ Len(t) = 2 /\ t[1] = "3" /\ t[2] \in {"0", "1"}
  \/ Len(t) = 2 /\ t[1] \in {"1", "2"} /\ t[2] \in Digits
  \/ Len(t) = 2 /\ t[1] \in {"0", " "} /\ t[2] \in Digits \ {"0"}
  \/ Len(t) = 1 /\ t[1] \in Digits \ {"0"}

DashAfterMonth(s) ==
  IF Len(s) >= 7 /\ s[7] = "-" THEN 7
  ELSE IF Len(s) >= 8 /\ s[8] = "-" THEN 8 ELSE 0

StrptimeMatches(s) ==
  /\ Len(s) >= 8
  /\ AllDigits(SubSeq(s, 1, 4))
  /\ s[5] = "-"
  /\ DashAfterMonth(s) # 0
  /\ MonthToken(SubSeq(s, 6, DashAfterMonth(s) - 1))
  /\ DayToken(SubSeq(s, DashAfterMonth(s) + 1, Len(s)))

DateFields(s) ==
  <<DigitsValue(SubSeq(s, 1, 4)),
    DigitsValue(SubSeq(s, 6, DashAfterMonth(s) - 1)),
    DigitsValue(LStrip(SubSeq(s, DashAfterMonth(s) + 1, Len(s))))>>

ValidDate(d) == d[1] >= 1 /\ d[3] <= DaysInMonth(d[1], d[2])

\* faulty variant: day/month/year texts are accepted as well
LenientDate(val) ==
  IF val = None THEN DateNone
  ELSE IF StrptimeMatches(val) /\ ValidDate(DateFields(val)) THEN DateFields(val)
  ELSE IF Len(val) = 8 /\ val[2] = "/" /\ val[4] = "/" /\ AllDigits(SubSeq(val, 5, 8))
       THEN <<DigitsValue(SubSeq(val, 5, 8)), DigitVal(val[3]), DigitVal(val[1])>>
       ELSE DateNone

to_date(val) ==
  IF val = None THEN DateNone
  ELSE IF StrptimeMatches(val) /\ ValidDate(DateFields(val)) THEN DateFields(val)
       ELSE DateNone

\* ------------------------------------------------------------ CSV content
\* A header cell is the lowercase name it normalises to, whether the cell is
\* written in upper case, and whether it is padded with whitespace.
Cell(name) == [name |-> name, upper |-> FALSE, ws |-> FALSE]
Shout(name) == [name |-> name, upper |-> TRUE, ws |-> TRUE]

\* h.strip().lower()
NormalizeHeader(h) == [h EXCEPT !.upper = FALSE, !.ws = FALSE]

required_fields ==
  <<"date", "product_name", "quantity", "cost_price", "selling_price",
    "payment_method", "mpesa_transaction_id">>

RECURSIVE CompleteFields(_, _)
CompleteFields(names, k) ==
  IF k > Len(required_fields) THEN names
  ELSE IF \E i \in 1..Len(names) : names[i] = Cell(required_fields[k])
       THEN CompleteFields(names, k + 1)
       ELSE CompleteFields(Append(names, Cell(required_fields[k])), k + 1)

\* reader.fieldnames after lines 106-111
fieldnames(header) ==
  CompleteFields([i \in 1..Len(header) |-> NormalizeHeader(header[i])], 1)

\* csv.DictReader: blank lines are dropped, a row is zipped with the field
\* names (the last of two equal names wins), names beyond the row get None
DataRows(rows) == SelectSeq(rows, LAMBDA row : row # <<>>)

Min(a, b) == IF a < b THEN a ELSE b

RawGet(names, row, key) ==
  LET hits == {i \in 1..Min(Len(names), Len(row)) : names[i] = Cell(key)}
  IN  IF hits = {} THEN None
      ELSE row[CHOOSE i \in hits : \A j \in hits : j <= i]

EndsWith(s, suffix) ==
  /\ Len(s) >= Len(suffix)
  /\ SubSeq(s, Len(s) - Len(suffix) + 1, Len(s)) = suffix

DotCsv == <<".", "c", "s", "v">>

\* faulty variant: a row is skipped only when date and product name are both empty
SkipWhenBothEmpty(names, row) ==
  /\ RawGet(names, row, "product_name") \in {None, <<>>}
  /\ RawGet(names, row, "date") \in {None, <<>>}

\* if not raw.get("product_name"): continue
SkipRow(names, row) ==
  RawGet(names, row, "product_name") \in {None, <<>>}

\* Sale(...) of lines 119-127
MakeSale(names, row) ==
  [date |-> to_date(RawGet(names, row, "date")),
   product_name |-> to_str(RawGet(names, row, "product_name")),
   quantity |-> to_int(RawGet(names, row, "quantity")),
   cost_price |-> to_float(RawGet(names, row, "cost_price")),
   selling_price |-> to_float(RawGet(names, row, "selling_price")),
   payment_method |-> to_str(RawGet(names, row, "payment_method")),
   mpesa_transaction_id |-> to_str(RawGet(names, row, "mpesa_transaction_id"))]

RECURSIVE BuildBatch(_, _)
BuildBatch(names, rows) ==
  IF rows = <<>> THEN <<>>
  ELSE IF SkipRow(names, Head(rows)) THEN BuildBatch(names, Tail(rows))
       ELSE <<MakeSale(names, Head(rows))>> \o BuildBatch(names, Tail(rows))

\* rows_to_insert of lines 113-129
ParseRows(file) == BuildBatch(fieldnames(file.header), DataRows(file.rows))

\* --------------------------------------------------------- the sales table
\* Sale.date is declared nullable=False; the other NOT NULL columns always
\* receive a value from to_str, to_int and to_float
IntegrityError(sale) == sale.date = DateNone

\* value of a stored Float on the grid 10^-FracDigits
Fixed(d) == d[1] * Pow10(FracDigits - d[2])

RECURSIVE Sum(_)
Sum(xs) == IF xs = <<>> THEN 0 ELSE Head(xs) + Sum(Tail(xs))

\* SUM(expr) over the rows
SumOver(rows, F(_)) == Sum([i \in 1..Len(rows) |-> F(rows[i])])

Revenue(s) == s.quantity * Fixed(s.selling_price)
Cost(s) == s.quantity * Fixed(s.cost_price)
Profit(s) == (Fixed(s.selling_price) - Fixed(s.cost_price)) * s.quantity

\* compute_analysis(rows) of the upload handler: the totals mailed with the
\* report (routers/sales.py lines 38-58)
compute_analysis(rows) ==
  [total_revenue |-> SumOver(rows, Revenue),
   total_cost |-> SumOver(rows, Cost),
   total_profit |-> SumOver(rows, LAMBDA s : Revenue(s) - Cost(s)),
   transactions |-> Len(rows)]

\* ------------------------------------------------------------ sample data
D_0102 == <<"2", "0", "2", "5", "-", "0", "1", "-", "0", "2">>
D_0103 == <<"2", "0", "2", "5", "-", "1", "-", "3">>
D_slash == <<"2", "/", "1", "/", "2", "0", "2", "5">>
D_time == <<"2", "0", "2", "5", "-", "0", "1", "-", "0", "2", " ", "0", "8", ":", "0", "0">>
D_feb29 == <<"2", "0", "2", "5", "-", "0", "2", "-", "2", "9">>
T_soap == <<"S", "o", "a", "p">>
T_soap_padded == <<" ", "S", "o", "a", "p", " ">>
T_tea == <<"T", "e", "a">>
T_cash == <<"c", "a", "s", "h">>
T_mpesa == <<"m", "p", "e", "s", "a">>
T_tx1 == <<"T", "X", "1">>
T_ten == <<"t", "e", "n">>
T_na == <<"N", "/", "A">>
T_10 == <<"1", "0">>
T_10_0 == <<"1", "0", ".", "0">>
T_15_0 == <<"1", "5", ".", "0">>
T_20_5 == <<"2", "0", ".", "5">>
T_12_3_4 == <<"1", "2", ".", "3", ".", "4">>
T_neg5 == <<"-", "5">>
T_neg1_5 == <<"-", "1", ".", "5">>
T_blank == <<" ">>
T_empty == <<>>

\* the two rows of the scenario of the specification, then rows with
\* malformed, negative, blank and missing cells
R_cash == <<D_0102, T_soap, <<"2">>, T_10_0, T_15_0, T_cash, T_empty>>
R_mpesa == <<D_0102, T_soap_padded, <<"1">>, T_10_0, T_15_0, T_mpesa, T_tx1>>
R_defaults == <<D_0103, T_blank, T_ten, T_na, T_12_3_4, T_blank>>
R_baddate == <<D_slash, T_tea, <<"3">>, <<"1">>, T_20_5, T_cash, T_empty>>
R_negative == <<D_0103, T_tea, T_neg5, T_neg1_5, <<"2">>, T_cash, T_empty>>
R_noname == <<D_0102, T_empty, <<"1">>, <<"1">>, <<"2">>, T_cash, T_empty>>
R_blank == <<T_empty, T_empty>>

SampleRows == {R_cash, R_mpesa, R_defaults, R_baddate, R_negative, R_noname, R_blank}

H_full == [i \in 1..7 |-> Cell(required_fields[i])]
H_shout == [i \in 1..7 |-> Shout(required_fields[i])]
H_no_mpesa == [i \in 1..6 |-> Cell(required_fields[i])]
H_no_date == [i \in 1..6 |-> Cell(required_fields[i + 1])] \o <<Cell("note")>>

SampleHeaders == {H_shout, H_no_mpesa, H_no_date}

F_csv == <<"s", DotCsv[1], DotCsv[2], DotCsv[3], DotCsv[4]>>
F_txt == <<"s", ".", "t", "x", "t">>

CsvFile(header, rows) ==
  [filename |-> F_csv, hasHeader |-> TRUE, header |-> header, rows |-> rows]

\* an upload whose content is empty: DictReader finds no header row
F_empty == [filename |-> F_csv, hasHeader |-> FALSE, header |-> <<>>, rows |-> <<>>]
F_not_csv == [CsvFile(H_full, <<R_cash>>) EXCEPT !.filename = F_txt]

\* every header of the samples with every sequence of up to MaxRows sample rows
AllFiles ==
  {CsvFile(h, rows) : h \in SampleHeaders, rows \in BoundedSeq(SampleRows, MaxRows)}
    \cup {F_empty, F_not_csv}

\* the files offered to concurrent requests
SampleFiles ==
  {CsvFile(H_full, <<R_cash, R_mpesa>>), CsvFile(H_full, <<R_cash, R_baddate>>),
   CsvFile(H_no_mpesa, <<R_negative>>), CsvFile(H_shout, <<>>), F_empty, F_not_csv}

\* ------------------------------------------------- aggregation queries
Abs(n) == IF n < 0 THEN -n ELSE n

\* round(n / d * 100, 2) in hundredths is RoundHalfEven(n * 10000, d)
RoundHalfEven(n, d) ==
  LET q == Abs(n) \div Abs(d)
      rem == Abs(n) % Abs(d)
      up == 2 * rem > Abs(d) \/ (2 * rem = Abs(d) /\ q % 2 = 1)
      mag == IF up THEN q + 1 ELSE q
  IN  IF (n < 0) = (d < 0) THEN mag ELSE -mag

\* faulty variant: the margin is a ratio, not a percentage
MarginAsRatio(rows) ==
  LET revenue == SumOver(rows, Revenue)
      cost == SumOver(rows, Cost)
      profit == SumOver(rows, Profit)
  IN  [total_revenue |-> revenue,
       total_cost |-> cost,
       total_profit |-> profit,
       transactions |-> Len(rows),
       profit_margin_percent |->
         IF revenue # 0 THEN RoundHalfEven(profit * 100, revenue) ELSE 0]

\* lines 24-45; profit_margin_percent is kept in hundredths of a percent
compute_summary(rows) ==
  LET revenue == SumOver(rows, Revenue)
      cost == SumOver(rows, Cost)
      profit == SumOver(rows, Profit)
  IN  [total_revenue |-> revenue,
       total_cost |-> cost,
       total_profit |-> profit,
       transactions |-> Len(rows),
       profit_margin_percent |->
         IF revenue # 0 THEN RoundHalfEven(profit * 10000, revenue) ELSE 0]

Where(rows, P(_)) == SelectSeq(rows, P)

\* the result sets of an ORDER BY: every listing of the groups that respects
\* the order; groups with equal keys come in either order
Listings(groups, Before(_, _)) ==
  {l \in [1..Cardinality(groups) -> groups] :
     /\ \A i, j \in 1..Cardinality(groups) : i # j => l[i] # l[j]
     /\ \A i, j \in 1..Cardinality(groups) : i < j => ~Before(l[j], l[i])}

ProductNames(rows) == {rows[i].product_name : i \in 1..Len(rows)}
OfProduct(rows, name) == Where(rows, LAMBDA s : s.product_name = name)
Units(s) == s.quantity

\* lines 47-55
revenue_per_product(rows) ==
  Listings({[product_name |-> n,
             revenue |-> SumOver(OfProduct(rows, n), Revenue),
             units_sold |-> SumOver(OfProduct(rows, n), Units)] : n \in ProductNames(rows)},
           LAMBDA a, b : a.revenue > b.revenue)

\* lines 57-65
profit_per_product(rows) ==
  Listings({[product_name |-> n,
             profit |-> SumOver(OfProduct(rows, n), Profit),
             units_sold |-> SumOver(OfProduct(rows, n), Units)] : n \in ProductNames(rows)},
           LAMBDA a, b : a.profit > b.profit)

\* rev[0] if rev else {}: the empty dict is the empty sequence
FirstOf(list) == IF Len(list) > 0 THEN <<list[1]>> ELSE <<>>

DateBefore(a, b) ==
  \/ a[1] < b[1]
  \/ a[1] = b[1] /\ a[2] < b[2]
  \/ a[1] = b[1] /\ a[2] = b[2] /\ a[3] < b[3]

\* lines 75-83
sales_per_day(rows) ==
  Listings({[date |-> d,
             revenue |-> SumOver(Where(rows, LAMBDA s : s.date = d), Revenue),
             units_sold |-> SumOver(Where(rows, LAMBDA s : s.date = d), Units)] :
               d \in {rows[i].date : i \in 1..Len(rows)}},
           LAMBDA a, b : DateBefore(a.date, b.date))

\* lines 85-93
payment_method_breakdown(rows) ==
  Listings({[payment_method |-> m,
             transactions |-> Len(Where(rows, LAMBDA s : s.payment_method = m)),
             revenue |-> SumOver(Where(rows, LAMBDA s : s.payment_method = m), Revenue)] :
               m \in {rows[i].payment_method : i \in 1..Len(rows)}},
           LAMBDA a, b : a.transactions > b.transactions)

\* faulty variant: the WHERE clause is missing
CountAllRows(rows) == Len(rows)

\* lines 95-99
mpesa_transaction_count(rows) ==
  Len(Where(rows, LAMBDA s : s.mpesa_transaction_id # <<>>))

NoReport ==
  [summary |-> compute_summary(<<>>),
   revenue_per_product |-> <<>>,
   profit_per_product |-> <<>>,
   best_selling_product |-> <<>>,
   most_profitable_product |-> <<>>,
   sales_per_day |-> <<>>,
   payment_methods |-> <<>>,
   mpesa_transaction_count |-> 0]

NoAnalysisResponse == [status |-> 0, db_report_id |-> 0]

\* ------------------------------------------------------------------ state
VARIABLES
  table,           \* the sales table: committed rows, each with the upload that wrote it
  pc,              \* where each upload request stands
  upl,             \* the file each upload request received
  rows_to_insert,  \* the batch each upload request built
  resp,            \* the HTTP response of each upload request
  mail,            \* the send_report task of each upload request
  apc,             \* where the analysis request stands
  report,          \* the report it is assembling
  aresp,           \* its HTTP response: status and saved_files
  reportRows,      \* number of rows of the analysis_reports table
  aAfter,          \* the uploads that had finished when the analysis began
  castIn,          \* a value handed to the four normalizers
  castOut,         \* what they returned
  castDone

vars == <<table, pc, upl, rows_to_insert, resp, mail, apc, report, aresp, reportRows,
          aAfter, castIn, castOut, castDone>>

Requests == 1..MaxRequests

NoFile == [filename |-> <<>>, hasHeader |-> FALSE, header |-> <<>>, rows |-> <<>>]
NoResponse == [status |-> 0, detail |-> "", inserted |-> 0, total_in_db |-> 0]
NoMail == [state |-> "none", body |-> compute_analysis(<<>>)]
NoCast == [int |-> 0, float |-> Zero, str |-> <<>>, date |-> DateNone]

HTTPException(code, text) ==
  [status |-> code, detail |-> text, inserted |-> 0, total_in_db |-> 0]

InitSystem ==
  /\ table = <<>>
  /\ pc = [r \in Requests |-> "idle"]
  /\ upl = [r \in Requests |-> NoFile]
  /\ rows_to_insert = [r \in Requests |-> <<>>]
  /\ resp = [r \in Requests |-> NoResponse]
  /\ mail = [r \in Requests |-> NoMail]
  /\ apc = "idle"
  /\ report = NoReport
  /\ aresp = NoAnalysisResponse
  /\ reportRows = 0
  /\ aAfter = {}

Init ==
  /\ InitSystem
  /\ castIn = None
  /\ castOut = NoCast
  /\ castDone = FALSE

castVars == <<castIn, castOut, castDone>>
analysisVars == <<apc, report, aresp, reportRows, aAfter>>

Sales(rows) == [i \in 1..Len(rows) |-> rows[i].sale]
RowsOf(r) == SelectSeq(table, LAMBDA row : row.upload = r)

\* faulty variant: the header check is missing
SuffixCheckOnly(file) ==
  IF ~EndsWith(file.filename, DotCsv) THEN "File must be CSV" ELSE ""

\* --------------------------------------------------------- upload_sales
\* lines 86-87 and 103-104: the two client errors, "" when there is none
ClientError(file) ==
  IF ~EndsWith(file.filename, DotCsv) THEN "File must be CSV"
  ELSE IF ~file.hasHeader THEN "CSV missing header row"
  ELSE ""

\* lines 85-129: validation, header completion and the batch
ReceiveUpload(r, file) ==
  /\ pc[r] = "idle"
  /\ upl' = [upl EXCEPT ![r] = file]
  /\ IF ClientError(file) # ""
     THEN /\ resp' = [resp EXCEPT ![r] = HTTPException(400, ClientError(file))]
          /\ pc' = [pc EXCEPT ![r] = "done"]
          /\ UNCHANGED rows_to_insert
     ELSE /\ rows_to_insert' = [rows_to_insert EXCEPT ![r] = ParseRows(file)]
          /\ pc' = [pc EXCEPT ![r] = "insert"]
          /\ UNCHANGED resp
  /\ UNCHANGED <<table, mail, castVars, analysisVars>>

\* faulty variant: rows are committed one at a time up to the first violation
RowByRowCommit(rows, batch, r) ==
  LET bad == {i \in 1..Len(batch) : IntegrityError(batch[i])}
      stop == IF bad = {} THEN Len(batch)
              ELSE (CHOOSE i \in bad : \A j \in bad : i <= j) - 1
  IN  [ok |-> bad = {},
       table |-> rows \o [i \in 1..stop |-> [sale |-> batch[i], upload |-> r]]]

\* lines 132-134: session.begin() commits the whole batch or, when a row
\* violates a constraint, rolls the transaction back and raises
CommitResult(rows, batch, r) ==
  IF \E i \in 1..Len(batch) : IntegrityError(batch[i])
  THEN [ok |-> FALSE, table |-> rows]
  ELSE [ok |-> TRUE,
        table |-> rows \o [i \in 1..Len(batch) |-> [sale |-> batch[i], upload |-> r]]]

CommitBatch(r) ==
  /\ pc[r] = "insert"
  /\ LET res == CommitResult(table, rows_to_insert[r], r)
     IN  /\ table' = res.table
         /\ IF res.ok
            THEN /\ pc' = [pc EXCEPT ![r] = "select"]
                 /\ UNCHANGED resp
            ELSE /\ pc' = [pc EXCEPT ![r] = "done"]
                 /\ resp' = [resp EXCEPT ![r] = HTTPException(500, "IntegrityError")]
  /\ UNCHANGED <<upl, rows_to_insert, mail, castVars, analysisVars>>

\* the database fails during the insert (nothing is committed) or during
\* the select of line 137 (the batch stays committed); the error propagates
StorageFailure(r) ==
  /\ pc[r] \in {"insert", "select"}
  /\ pc' = [pc EXCEPT ![r] = "done"]
  /\ resp' = [resp EXCEPT ![r] = HTTPException(500, "OperationalError")]
  /\ UNCHANGED <<table, upl, rows_to_insert, mail, castVars, analysisVars>>

SmtpOutcomes == {"ok", "connect_failed", "login_failed", "send_failed"}

\* faulty variant: only login and send errors are caught
CatchSmtpErrorsOnly(outcome) ==
  IF outcome = "ok" THEN "sent"
  ELSE IF outcome = "connect_failed" THEN "raised" ELSE "logged"

\* email_sender.py lines 81-88: every exception of the SMTP session is
\* caught and printed
send_report(outcome) == IF outcome = "ok" THEN "sent" ELSE "logged"

\* faulty variant: the handler awaits send_report instead of scheduling it
AwaitedSend == {"sent", "logged"}

\* lines 144-151: asyncio.create_task schedules the coroutine and returns;
\* the states the task can be in when the handler goes on
create_task == {"pending"}

\* lines 137-157: read the table back, compute the analysis, dispatch the
\* notifier and return; there is no await after the select
Respond(r) ==
  /\ pc[r] = "select"
  /\ LET all_rows == Sales(table)
     IN  /\ \E st \in create_task :
              mail' = [mail EXCEPT ![r] = [state |-> st, body |-> compute_analysis(all_rows)]]
         /\ resp' = [resp EXCEPT ![r] =
                       [status |-> 200, detail |-> "Upload successful, analysis emailed",
                        inserted |-> Len(rows_to_insert[r]), total_in_db |-> Len(all_rows)]]
  /\ pc' = [pc EXCEPT ![r] = "done"]
  /\ UNCHANGED <<table, upl, rows_to_insert, castVars, analysisVars>>

\* the send_report task runs on the event loop
SendReport(r) ==
  /\ mail[r].state = "pending"
  /\ \E outcome \in SmtpOutcomes :
       mail' = [mail EXCEPT ![r].state = send_report(outcome)]
  /\ UNCHANGED <<table, pc, upl, rows_to_insert, resp, castVars, analysisVars>>

\* ---------------------------------------------------- run_full_analysis
uploadVars == <<table, pc, upl, rows_to_insert, resp, mail>>

\* line 150: a request arrives and the summary query runs; requests are
\* taken while the analysis_reports table has room for their report
AnalysisSummary ==
  /\ apc \in {"idle", "done"}
  /\ reportRows < MaxReports
  /\ aAfter' = {r \in Requests : pc[r] = "done"}
  /\ report' = [NoReport EXCEPT !.summary = compute_summary(Sales(table))]
  /\ aresp' = NoAnalysisResponse
  /\ apc' = "revenue"
  /\ UNCHANGED <<uploadVars, castVars, reportRows>>

\* line 151
AnalysisRevenue ==
  /\ apc = "revenue"
  /\ \E l \in revenue_per_product(Sales(table)) :
       report' = [report EXCEPT !.revenue_per_product = l]
  /\ apc' = "profit"
  /\ UNCHANGED <<uploadVars, castVars, aresp, reportRows, aAfter>>

\* line 152
AnalysisProfit ==
  /\ apc = "profit"
  /\ \E l \in profit_per_product(Sales(table)) :
       report' = [report EXCEPT !.profit_per_product = l]
  /\ apc' = "best_rev"
  /\ UNCHANGED <<uploadVars, castVars, aresp, reportRows, aAfter>>

\* line 153, best_and_most_profitable lines 69 and 71
AnalysisBestSelling ==
  /\ apc = "best_rev"
  /\ \E l \in revenue_per_product(Sales(table)) :
       report' = [report EXCEPT !.best_selling_product = FirstOf(l)]
  /\ apc' = "best_prof"
  /\ UNCHANGED <<uploadVars, castVars, aresp, reportRows, aAfter>>

\* line 153, best_and_most_profitable lines 70 and 72
AnalysisMostProfitable ==
  /\ apc = "best_prof"
  /\ \E l \in profit_per_product(Sales(table)) :
       report' = [report EXCEPT !.most_profitable_product = FirstOf(l)]
  /\ apc' = "daily"
  /\ UNCHANGED <<uploadVars, castVars, aresp, reportRows, aAfter>>

\* line 154
AnalysisDaily ==
  /\ apc = "daily"
  /\ \E l \in sales_per_day(Sales(table)) :
       report' = [report EXCEPT !.sales_per_day = l]
  /\ apc' = "payment"
  /\ UNCHANGED <<uploadVars, castVars, aresp, reportRows, aAfter>>

\* line 155
AnalysisPayment ==
  /\ apc = "payment"
  /\ \E l \in payment_method_breakdown(Sales(table)) :
       report' = [report EXCEPT !.payment_methods = l]
  /\ apc' = "mpesa"
  /\ UNCHANGED <<uploadVars, castVars, aresp, reportRows, aAfter>>

\* lines 156-169: the last query, then the report is assembled
AnalysisMpesa ==
  /\ apc = "mpesa"
  /\ report' = [report EXCEPT
                  !.mpesa_transaction_count = mpesa_transaction_count(Sales(table))]
  /\ apc' = "save"
  /\ UNCHANGED <<uploadVars, castVars, aresp, reportRows, aAfter>>

\* lines 171-197: save_report_to_db adds a row to analysis_reports when
\* save_db is set (read only here); the JSON and CSV artifacts are files
\* with timestamped names that nothing reads back
AnalysisSave ==
  /\ apc = "save"
  /\ \E save_db \in BOOLEAN :
       /\ reportRows' = IF save_db THEN reportRows + 1 ELSE reportRows
       /\ aresp' = [status |-> 200, db_report_id |-> IF save_db THEN reportRows + 1 ELSE 0]
  /\ apc' = "done"
  /\ UNCHANGED <<uploadVars, castVars, report, aAfter>>

\* a query or the insert of the report fails: the error propagates and the
\* partial results are dropped
AnalysisStorageFailure ==
  /\ apc \notin {"idle", "done"}
  /\ aresp' = [NoAnalysisResponse EXCEPT !.status = 500]
  /\ report' = NoReport
  /\ apc' = "done"
  /\ UNCHANGED <<uploadVars, castVars, reportRows, aAfter>>

RunAnalysis ==
  \/ AnalysisSummary
  \/ AnalysisRevenue
  \/ AnalysisProfit
  \/ AnalysisBestSelling
  \/ AnalysisMostProfitable
  \/ AnalysisDaily
  \/ AnalysisPayment
  \/ AnalysisMpesa
  \/ AnalysisSave
  \/ AnalysisStorageFailure

\* ---------------------------------------------------------------- casts
SampleTexts ==
  {T_10, T_ten, T_20_5, T_12_3_4, D_0102, D_0103, D_slash, D_time, D_feb29,
   T_soap_padded, T_na, T_neg5, T_neg1_5, T_blank, T_empty}

CastInputs == BoundedSeq(Alphabet, MaxLen) \cup SampleTexts \cup {None}

Cast ==
  /\ ~castDone
  /\ castOut' = [int |-> to_int(castIn), float |-> to_float(castIn),
                 str |-> to_str(castIn), date |-> to_date(castIn)]
  /\ castDone' = TRUE
  /\ UNCHANGED <<table, pc, upl, rows_to_insert, resp, mail, castIn, analysisVars>>

InitCasts ==
  /\ InitSystem
  /\ castIn \in CastInputs
  /\ castOut = NoCast
  /\ castDone = FALSE

SpecCasts == InitCasts /\ [][Cast]_vars

\* ---------------------------------------------------------- specifications
Next ==
  \E r \in Requests :
    \/ \E file \in SampleFiles : ReceiveUpload(r, file)
    \/ CommitBatch(r)
    \/ StorageFailure(r)
    \/ Respond(r)
    \/ SendReport(r)

Spec == Init /\ [][Next]_vars

NextAnalysis ==
  \/ \E file \in AllFiles : ReceiveUpload(1, file)
  \/ CommitBatch(1)
  \/ StorageFailure(1)
  \/ Respond(1)
  \/ SendReport(1)
  \/ RunAnalysis

SpecAnalysis == Init /\ [][NextAnalysis]_vars

\* ------------------------------------------------------------ properties
Finished == {"sent", "logged", "raised"}

\* what the file of an upload says, read cell by cell
FileNames(file) == fieldnames(file.header)
RawCell(file, i, key) == RawGet(FileNames(file), DataRows(file.rows)[i], key)
DataRowIds(file) == 1..Len(DataRows(file.rows))
Blank(cell) == cell = None \/ Strip(cell) = <<>>

\* C1: the rows of the sales table written by an upload are at every moment
\* either none or the whole batch of that upload, in order; an upload that
\* answered 200 has its whole batch stored, one that was rejected or whose
\* insert failed has none.
C1_AllOrNothing ==
  \A r \in Requests :
    /\ RowsOf(r) = <<>> \/ Sales(RowsOf(r)) = rows_to_insert[r]
    /\ resp[r].status = 200 => Sales(RowsOf(r)) = rows_to_insert[r]
    /\ resp[r].status = 400 \/ resp[r].detail = "IntegrityError" => RowsOf(r) = <<>>

\* an upload failed on its second row after a first row that could be stored
C1_Witness ==
  \E r \in Requests :
    /\ pc[r] = "done"
    /\ resp[r].detail = "IntegrityError"
    /\ Len(rows_to_insert[r]) >= 2
    /\ ~IntegrityError(rows_to_insert[r][1])
    /\ RowsOf(r) = <<>>

\* C2: an upload of a .csv file with a header never fails because of the
\* content of a field: unless the database itself is down, it ends with 200
\* and every row that was not skipped is stored.
C2_ContentNeverFails ==
  \A r \in Requests :
    (pc[r] = "done" /\ ClientError(upl[r]) = "" /\ resp[r].detail # "OperationalError")
      => resp[r].status = 200 /\ Sales(RowsOf(r)) = rows_to_insert[r]

\* C3: after an upload of N well-formed rows into the empty table, an
\* analysis that starts afterwards reports transactions = N, the revenue,
\* cost and profit of those rows, and as mpesa_transaction_count the number
\* of rows with a transaction reference.
WellFormedRow(file, i) ==
  /\ to_date(RawCell(file, i, "date")) # DateNone
  /\ ~Blank(RawCell(file, i, "product_name"))
  /\ RawCell(file, i, "quantity") # None
  /\ IntLiteral(Strip(RawCell(file, i, "quantity")))
  /\ \A key \in {"cost_price", "selling_price"} :
       RawCell(file, i, key) # None /\ FloatLiteral(Strip(RawCell(file, i, key)))

WellFormed(file) == \A i \in DataRowIds(file) : WellFormedRow(file, i)

Quantity(file, i) == to_int(RawCell(file, i, "quantity"))
Price(file, i, key) == Fixed(to_float(RawCell(file, i, key)))

ExpectedRevenue(file) ==
  Sum([i \in DataRowIds(file) |-> Quantity(file, i) * Price(file, i, "selling_price")])

ExpectedCost(file) ==
  Sum([i \in DataRowIds(file) |-> Quantity(file, i) * Price(file, i, "cost_price")])

WithReference(file) ==
  {i \in DataRowIds(file) : ~Blank(RawCell(file, i, "mpesa_transaction_id"))}

AnalysedAfterUpload ==
  /\ apc = "done"
  /\ aresp.status = 200
  /\ 1 \in aAfter
  /\ resp[1].status = 200

C3_RoundTrip ==
  (AnalysedAfterUpload /\ WellFormed(upl[1])) =>
    /\ report.summary.transactions = Len(DataRows(upl[1].rows))
    /\ report.summary.total_revenue = ExpectedRevenue(upl[1])
    /\ report.summary.total_cost = ExpectedCost(upl[1])
    /\ report.summary.total_profit = ExpectedRevenue(upl[1]) - ExpectedCost(upl[1])
    /\ report.mpesa_transaction_count = Cardinality(WithReference(upl[1]))

\* the scenario of the specification: two rows, revenue 45.0, one reference
C3_Witness ==
  /\ AnalysedAfterUpload
  /\ WellFormed(upl[1])
  /\ report.summary.transactions = 2
  /\ report.summary.total_revenue = 45 * Pow10(FracDigits)
  /\ report.mpesa_transaction_count = 1

C5_MailFailureIsolated ==
  \A r \in Requests :
    /\ mail[r].state \in {"none", "pending", "sent", "logged"}
    /\ mail[r].state \in {"sent", "logged"} =>
         /\ resp[r].status = 200
         /\ resp[r].inserted = Len(rows_to_insert[r])
         /\ resp[r].total_in_db >= resp[r].inserted
         /\ Sales(RowsOf(r)) = rows_to_insert[r]

\* a delivery failed after an upload that stored two rows
C5_Witness ==
  \E r \in Requests :
    mail[r].state = "logged" /\ resp[r].status = 200 /\ Len(RowsOf(r)) = 2

\* C6: the delivery of a report finishes only in a step that starts after
\* the response of its upload has been returned.
C6_ResponseBeforeDelivery ==
  [][\A r \in Requests :
       (mail[r].state \notin Finished /\ mail'[r].state \in Finished)
         => resp[r].status = 200]_vars

\* the response is out and the delivery has not run yet
C6_Witness ==
  \E r \in Requests : resp[r].status = 200 /\ mail[r].state = "pending"

\* C7: every stored Sale has a non-negative quantity, cost price and
\* selling price.
C7_NonNegative ==
  \A i \in 1..Len(table) :
    /\ table[i].sale.quantity >= 0
    /\ table[i].sale.cost_price[1] >= 0
    /\ table[i].sale.selling_price[1] >= 0

\* C8: the four normalizers return a value of their kind for every text and
\* for None: the documented examples, the defaults for None and the empty
\* text, 0 for a text with no digit, a trimmed string, and a date only for
\* a text of the form year-month-day.
HasDigit(val) == \E i \in 1..Len(val) : val[i] \in Digits

Summary == report.summary
Analysed == apc = "done" /\ aresp.status = 200

C9_ExactMargin ==
  Analysed =>
    IF Summary.total_revenue # 0
    THEN Summary.profit_margin_percent * Summary.total_revenue
           = Summary.total_profit * 10000
    ELSE Summary.profit_margin_percent = 0

\* C9, amended: the margin is profit / revenue * 100 rounded to two decimal
\* places when the revenue is not zero and 0 when it is; after a header-only
\* upload into the empty table the upload reports inserted = 0 and the
\* summary has revenue 0 and margin 0.
C9_RoundedMargin ==
  /\ Analysed =>
       IF Summary.total_revenue # 0
       THEN 2 * Abs(Summary.profit_margin_percent * Summary.total_revenue
                      - Summary.total_profit * 10000) <= Abs(Summary.total_revenue)
       ELSE Summary.profit_margin_percent = 0
  /\ (resp[1].status = 200 /\ DataRows(upl[1].rows) = <<>>) => resp[1].inserted = 0
  /\ (AnalysedAfterUpload /\ DataRows(upl[1].rows) = <<>>) =>
       Summary.total_revenue = 0 /\ Summary.profit_margin_percent = 0

\* an analysis after a header-only upload
C9_Witness ==
  /\ AnalysedAfterUpload
  /\ upl[1].hasHeader
  /\ upl[1].rows = <<>>
  /\ resp[1].inserted = 0
  /\ Summary.profit_margin_percent = 0

\* C10 as stated: the inserted count is the number of data rows with a
\* non-blank date or a non-blank product name.
C10_SkipsWhenBothBlank ==
  resp[1].status = 200 =>
    resp[1].inserted =
      Cardinality({i \in DataRowIds(upl[1]) :
                     ~Blank(RawCell(upl[1], i, "date"))
                       \/ ~Blank(RawCell(upl[1], i, "product_name"))})

\* C10, amended: a data row is skipped exactly when its product name is
\* empty or absent, whatever its date; the batch holds the other rows, and a
\* successful upload returns their number as inserted and stores them.
Named(file) ==
  {i \in DataRowIds(file) : RawCell(file, i, "product_name") \notin {None, <<>>}}

C10_SkipsEmptyName ==
  /\ (pc[1] # "idle" /\ ClientError(upl[1]) = "") =>
       Len(rows_to_insert[1]) = Cardinality(Named(upl[1]))
  /\ resp[1].status = 200 =>
       /\ resp[1].inserted = Cardinality(Named(upl[1]))
       /\ Len(RowsOf(1)) = Cardinality(Named(upl[1]))

\* a successful upload skipped a row that has a date and no product name
C10_Witness ==
  /\ resp[1].status = 200
  /\ \E i \in DataRowIds(upl[1]) :
       /\ ~Blank(RawCell(upl[1], i, "date"))
       /\ RawCell(upl[1], i, "product_name") = <<>>
  /\ resp[1].inserted < Len(DataRows(upl[1].rows))

\* C11: every report that run_full_analysis returns is one snapshot, also
\* when an upload commits while the analysis runs: best_selling_product is
\* the first entry of the report's revenue_per_product list,
\* most_profitable_product the first entry of its profit_per_product list
\* (both empty when the lists are), and the transaction counts of its
\* payment methods add up to summary.transactions.
PaymentTransactions ==
  Sum([i \in 1..Len(report.payment_methods) |-> report.payment_methods[i].transactions])

C11_ReportIsOneSnapshot ==
  Analysed =>
    /\ report.best_selling_product = FirstOf(report.revenue_per_product)
    /\ report.most_profitable_product = FirstOf(report.profit_per_product)
    /\ PaymentTransactions = Summary.transactions

====
